---- MODULE Spec2Model ----
(***************************************************************************)
(* Model of PrismaSchemaUtilsService (prismaSchemaUtils.service.ts): the   *)
(* field classifier resolveFieldDataType, the relation helpers             *)
(* isFkFieldOfARelation / isNotAnnotatedRelationField /                    *)
(* findRemoteRelatedModelAndField and the entity and field builder         *)
(* convertPreparedSchemaForImportObjects.                                  *)
(*                                                                         *)
(* A schema is [list |-> <<declaration, ...>>]; a declaration is a model   *)
(* [type, name, properties] or an enum [type, name, enumerators]; a field  *)
(* is [type, name, fieldType, optional, array, attributes]; an attribute   *)
(* is [name, args]; an attribute argument is [kind, key, name, str, list]: *)
(*   kind "string"   : a bare string value            (str)                *)
(*   kind "keyValue" : key: [a, b] or key: "s"        (key, list, str)     *)
(*   kind "function" : a function call such as now()  (name)               *)
(*   kind "number"   : a bare number                                       *)
(***************************************************************************)
EXTENDS Integers, Sequences, FiniteSets, TLC

VARIABLES
  schema,            \* the prepared schema handed to the builder / the callee
  pc,                \* position of the run
  mi,                \* index of the model being walked (for (const model of modelList))
  fi,                \* index of the field being walked (for (const field of modelFields))
  preparedEntities,  \* the CreateBulkEntitiesInput list being filled
  err,               \* the error thrown, NoError while none
  logged,            \* what was handed to the logger, in order
  pairing,           \* the <<model, field>> names findRemoteRelatedModelAndField was called for
  callModel,         \* direct call: index of the model argument in the model list
  callField,         \* direct call: the field argument
  callResult,        \* direct call: what the callee returned
  pipeline           \* processSchema: the schema it was handed, the schema before
                     \* the last operation, and how often it has been applied

vars == <<schema, pc, mi, fi, preparedEntities, err, logged, pairing,
          callModel, callField, callResult, pipeline>>

-----------------------------------------------------------------------------
(* Bounds of the model *)

\* at most this many fields besides the primary key in each generated model
MaxExtraFields == 3

\* at most this many attributes on a field handed to the classifier directly
MaxAttrs == 3

-----------------------------------------------------------------------------
(* Constants imported from ./constants and enums/EnumDataType *)

MODEL_TYPE_NAME == "model"
FIELD_TYPE_NAME == "field"
ENUM_TYPE_NAME == "enum"
ID_ATTRIBUTE_NAME == "id"
ID_FIELD_NAME == "id"

EnumDataType ==
  {"Id", "Lookup", "OptionSet", "MultiSelectOptionSet", "CreatedAt", "UpdatedAt",
   "SingleLineText", "WholeNumber", "DecimalNumber", "Boolean", "DateTime", "Json"}

\* what a fieldDataTypCase returns when it does not match
Undefined == "undefined"

-----------------------------------------------------------------------------
(* Errors *)

NoError == [type |-> "none", code |-> "", names |-> <<>>]
ThrownError(code, names) == [type |-> "Error", code |-> code, names |-> names]
\* reading a property of undefined
TypeError(what) == [type |-> "TypeError", code |-> what, names |-> <<>>]

\* resolveFieldDataType's last case: throw new Error(`Unsupported data type: ...`)
UnsupportedDataType == "Error: Unsupported data type"

-----------------------------------------------------------------------------
(* Constructors of the declaration tree (the shapes @mrleebo/prisma-ast yields) *)

StrArg(s) == [kind |-> "string", key |-> "", name |-> "", str |-> s, list |-> <<>>]
KeyValueArr(k, l) == [kind |-> "keyValue", key |-> k, name |-> "", str |-> "", list |-> l]
KeyValueStr(k, s) == [kind |-> "keyValue", key |-> k, name |-> "", str |-> s, list |-> <<>>]
FuncArg(n) == [kind |-> "function", key |-> "", name |-> n, str |-> "", list |-> <<>>]
NumArg == [kind |-> "number", key |-> "", name |-> "", str |-> "", list |-> <<>>]

Attr(n, a) == [name |-> n, args |-> a]

MkField(n, t, opt, arr, attrs) ==
  [type |-> FIELD_TYPE_NAME, name |-> n, fieldType |-> t, optional |-> opt,
   array |-> arr, attributes |-> attrs]

MkModel(n, props) == [type |-> MODEL_TYPE_NAME, name |-> n, properties |-> props]

MkEnum(n, names) == [type |-> ENUM_TYPE_NAME, name |-> n, enumerators |-> names]

-----------------------------------------------------------------------------
(* Sequence helpers *)

Min(S) == CHOOSE x \in S : \A y \in S : x <= y

\* Array.prototype.some / find over a sequence
Some(s, P(_)) == \E i \in 1..Len(s) : P(s[i])
FirstIndex(s, P(_)) ==
  IF \E i \in 1..Len(s) : P(s[i]) THEN Min({i \in 1..Len(s) : P(s[i])}) ELSE 0

\* the elements of seq at the indices of S, in index order
RECURSIVE PickSeq(_, _)
PickSeq(seq, S) ==
  IF S = {} THEN <<>>
  ELSE LET i == Min(S) IN <<seq[i]>> \o PickSeq(seq, S \ {i})

-----------------------------------------------------------------------------
(* Naming utilities of ./schema-utils                                      *)

\* formatModelName: the PascalCase singular form of a name; a reserved word is
\* corrected to "<name>Model" (the text of the ReservedWord warning)
formatModelName(n) ==
  CASE n = "customers" -> "Customer"
    [] n = "Class"     -> "ClassModel"
    [] n = "customer"  -> "Customer"
    [] n = "orders"    -> "Order"
    [] n = "order"     -> "Order"
    [] n = "order_items" -> "OrderItem"
    [] OTHER -> n

\* formatFieldName: the camelCase form of a name that has an underscore; a
\* reserved word is corrected to "<name>Field" (the text of the ReservedWord
\* warning); any other name is already in its canonical form
formatFieldName(n) ==
  CASE n = "customer_id" -> "customerId"
    [] n = "class"       -> "classField"
    [] n = "order_items" -> "orderItems"
    [] n = "created_at"  -> "createdAt"
    [] n = "order_status" -> "orderStatus"
    [] n = "order_id"    -> "orderId"
    [] OTHER -> n

-----------------------------------------------------------------------------
(* Views of the schema *)

\* schema.list.filter((item) => item.type === MODEL_TYPE_NAME)
ModelList(sch) == SelectSeq(sch.list, LAMBDA item : item.type = MODEL_TYPE_NAME)

\* schema.list.filter((item) => item.type === ENUM_TYPE_NAME)
EnumList(sch) == SelectSeq(sch.list, LAMBDA item : item.type = ENUM_TYPE_NAME)

\* model.properties.filter((property) => property.type === FIELD_TYPE_NAME)
ModelFields(model) ==
  SelectSeq(model.properties, LAMBDA property : property.type = FIELD_TYPE_NAME)

\* field.attributes?.some((attr) => attr.name === n)
HasAttribute(field, n) == Some(field.attributes, LAMBDA attr : attr.name = n)

\* (arg.value as Func).name === "now"
IsNowArg(arg) == arg.kind = "function" /\ arg.name = "now"

\* typeof arg.value === "string"
IsStringArg(arg) == arg.kind = "string"

-----------------------------------------------------------------------------
(* resolveFieldDataType: the cases, each a category or Undefined *)

idType(sch, field) ==
  IF HasAttribute(field, ID_ATTRIBUTE_NAME) THEN "Id" ELSE Undefined

lookupRelationType(sch, field) ==
  IF HasAttribute(field, "relation") THEN "Lookup" ELSE Undefined

lookupModelType(sch, field) ==
  IF Some(ModelList(sch),
          LAMBDA model : formatModelName(model.name) = formatModelName(field.fieldType))
  THEN "Lookup" ELSE Undefined

\* attributes?.find(name === "default") and then args?.some(now)
DefaultNow(field) ==
  LET i == FirstIndex(field.attributes, LAMBDA attr : attr.name = "default")
  IN  i # 0 /\ Some(field.attributes[i].args, IsNowArg)

createAtType(sch, field) ==
  IF DefaultNow(field) THEN "CreatedAt" ELSE Undefined

updatedAtType(sch, field) ==
  IF HasAttribute(field, "updatedAt") \/ DefaultNow(field) THEN "UpdatedAt" ELSE Undefined

optionSetType(sch, field) ==
  IF Some(EnumList(sch), LAMBDA enumItem : enumItem.name = field.fieldType)
  THEN "OptionSet" ELSE Undefined

multiSelectOptionSetType(sch, field) ==
  LET isMultiSelect == field.array
  IN  IF Some(EnumList(sch),
              LAMBDA enumItem : enumItem.name = field.fieldType /\ isMultiSelect)
      THEN "MultiSelectOptionSet" ELSE Undefined

scalarType(sch, field) ==
  CASE field.fieldType = "String"   -> "SingleLineText"
    [] field.fieldType = "Int"      -> "WholeNumber"
    [] field.fieldType = "Float"    -> "DecimalNumber"
    [] field.fieldType = "Boolean"  -> "Boolean"
    [] field.fieldType = "DateTime" -> "DateTime"
    [] field.fieldType = "Json"     -> "Json"
    [] OTHER -> Undefined

\* the list without its last, throwing, case
fieldDataTypCasesNoThrow(sch, field) ==
  << idType(sch, field), lookupRelationType(sch, field), lookupModelType(sch, field),
     optionSetType(sch, field), multiSelectOptionSetType(sch, field),
     createAtType(sch, field), updatedAtType(sch, field), scalarType(sch, field) >>

\* the list with updatedAtType tried before createAtType
fieldDataTypCasesSwapped(sch, field) ==
  << idType(sch, field), lookupRelationType(sch, field), lookupModelType(sch, field),
     optionSetType(sch, field), multiSelectOptionSetType(sch, field),
     updatedAtType(sch, field), createAtType(sch, field), scalarType(sch, field),
     UnsupportedDataType >>

\* const fieldDataTypCases = [idType, ..., scalarType, () => { throw ... }]
fieldDataTypCases(sch, field) ==
  << idType(sch, field), lookupRelationType(sch, field), lookupModelType(sch, field),
     optionSetType(sch, field), multiSelectOptionSetType(sch, field),
     createAtType(sch, field), updatedAtType(sch, field), scalarType(sch, field),
     UnsupportedDataType >>

\* for (const fieldDataTypCase of fieldDataTypCases) { if (result) return result; }
FirstResult(cases) ==
  LET hits == {i \in 1..Len(cases) : cases[i] # Undefined}
  IN  IF hits = {} THEN Undefined ELSE cases[Min(hits)]

resolveFieldDataType(sch, field) == FirstResult(fieldDataTypCases(sch, field))

-----------------------------------------------------------------------------
(* Relation helpers *)

\* the fields of model carrying a relation attribute whose `fields` lists field.name
relationFiledWithReference(model, field) ==
  SelectSeq(ModelFields(model),
    LAMBDA modelField :
      Some(modelField.attributes,
        LAMBDA attr :
          /\ attr.name = "relation"
          /\ Some(attr.args,
               LAMBDA arg :
                 /\ arg.kind = "keyValue"
                 /\ arg.key = "fields"
                 /\ Some(arg.list, LAMBDA argName : argName = field.name))))

\* isFkFieldOfARelation logs the conflict, twice
FkConflictLogged(model, field) ==
  Len(relationFiledWithReference(model, field)) > 1

\* with the test for a conflict in place of the test for one owner
isFkFieldOfARelationConflictOnly(sch, model, field) ==
  Len(relationFiledWithReference(model, field)) > 1

\* with any number of owners accepted
isFkFieldOfARelationAnyOwner(sch, model, field) ==
  Len(relationFiledWithReference(model, field)) >= 1

isFkFieldOfARelation(sch, model, field) ==
  Len(relationFiledWithReference(model, field)) = 1

\* without the disjunct for a relation attribute carrying a relation name
isNotAnnotatedRelationFieldNoName(sch, field) ==
  LET relationAttribute == HasAttribute(field, "relation")
      fieldModelType ==
        Some(ModelList(sch),
             LAMBDA modelItem :
               formatModelName(modelItem.name) = formatFieldName(field.fieldType))
  IN  ~relationAttribute /\ fieldModelType

isNotAnnotatedRelationField(sch, field) ==
  LET relationAttribute == HasAttribute(field, "relation")
      hasRelationAttributeWithRelationName ==
        Some(field.attributes,
             LAMBDA attr : attr.name = "relation" /\ Some(attr.args, IsStringArg))
      fieldModelType ==
        Some(ModelList(sch),
             LAMBDA modelItem :
               formatModelName(modelItem.name) = formatFieldName(field.fieldType))
  IN  \/ (~relationAttribute /\ fieldModelType)
      \/ (fieldModelType /\ hasRelationAttributeWithRelationName)

-----------------------------------------------------------------------------
(* findRemoteRelatedModelAndField *)

NoName == [defined |-> FALSE, str |-> ""]

\* field.attributes?.find((attr) => { ...; relationAttributeName = ...; }): the
\* callback returns nothing, so every attribute is visited and each visit
\* assigns relationAttributeName anew
RECURSIVE VisitAttributes(_, _, _)
VisitAttributes(attributes, i, relationAttributeName) ==
  IF i > Len(attributes) THEN relationAttributeName
  ELSE LET attr == attributes[i]
           relationAttribute == attr.name = "relation"
           k == IF relationAttribute THEN FirstIndex(attr.args, IsStringArg) ELSE 0
           assigned == IF k # 0 THEN [defined |-> TRUE, str |-> attr.args[k].str]
                       ELSE NoName
       IN  VisitAttributes(attributes, i + 1, assigned)

relationAttributeNameOf(field) == VisitAttributes(field.attributes, 1, NoName)

\* schema.list.find(model whose canonical name is the canonical field type): its index, 0 if none
RemoteModelIndex(sch, field) ==
  FirstIndex(sch.list,
    LAMBDA item : /\ item.type = MODEL_TYPE_NAME
                  /\ formatModelName(item.name) = formatModelName(field.fieldType))

\* remoteModelFields.find(a relation attribute with an argument equal to the name)
NamedRemoteFieldIndex(remoteModelFields, relationAttributeName) ==
  FirstIndex(remoteModelFields,
    LAMBDA f :
      Some(f.attributes,
        LAMBDA attr :
          /\ attr.name = "relation"
          /\ Some(attr.args,
               LAMBDA arg : arg.kind = "string" /\ arg.str = relationAttributeName)))

\* remoteModelFields.filter(type references model, no relation attribute)
UnnamedRemoteFields(remoteModelFields, model) ==
  SelectSeq(remoteModelFields,
    LAMBDA remoteField :
      /\ formatModelName(remoteField.fieldType) = formatModelName(model.name)
      /\ ~HasAttribute(remoteField, "relation"))

NoField == MkField("", "", FALSE, FALSE, <<>>)

Thrown(e) ==
  [error |-> e, remoteModelName |-> "", remoteFieldDefined |-> FALSE,
   remoteField |-> NoField, named |-> FALSE]

\* the result: the error thrown, or { remoteModel, remoteField } where
\* remoteField may be undefined; named tells which branch produced it
findRemoteRelatedModelAndField(sch, model, field) ==
  LET relationAttributeName == relationAttributeNameOf(field)
      r == RemoteModelIndex(sch, field)
  IN  IF r = 0
      THEN Thrown(ThrownError("ModelNotFound", <<field.fieldType>>))
      ELSE
        LET remoteModel == sch.list[r]
            remoteModelFields == ModelFields(remoteModel)
        IN  IF relationAttributeName.defined
            THEN
              LET k == NamedRemoteFieldIndex(remoteModelFields, relationAttributeName.str)
              IN  [error |-> NoError, remoteModelName |-> remoteModel.name,
                   remoteFieldDefined |-> (k # 0),
                   remoteField |-> IF k # 0 THEN remoteModelFields[k] ELSE NoField,
                   named |-> TRUE]
            ELSE
              LET remoteFields == UnnamedRemoteFields(remoteModelFields, model)
              IN  IF Len(remoteFields) > 1
                  THEN Thrown(ThrownError("MultipleFieldsFound",
                                          <<remoteModel.name, model.name>>))
                  ELSE IF Len(remoteFields) = 1
                  THEN [error |-> NoError, remoteModelName |-> remoteModel.name,
                        remoteFieldDefined |-> TRUE, remoteField |-> remoteFields[1],
                        named |-> FALSE]
                  ELSE Thrown(ThrownError("NoFieldFound",
                                          <<remoteModel.name, model.name>>))

-----------------------------------------------------------------------------
(* Prepare functions. displayName, pluralDisplayName, description, searchable *)
(* and customAttributes are presentation strings and are left out.          *)

\* prepareEntity; cuid() is modelled by the position of the call: the i-th
\* generated id, distinct from every other
prepareEntity(model, i) == [id |-> i, name |-> model.name, fields |-> <<>>]

createOneEntityFieldCommonProperties(field, fieldDataType) ==
  [name |-> field.name,
   dataType |-> fieldDataType,
   required |-> field.optional,
   unique |-> HasAttribute(field, "unique"),
   properties |-> [kind |-> "none"]]

-----------------------------------------------------------------------------
(* Conversion section. A conversion takes and returns a run state           *)
(* [error, entities, pairing]: the error thrown (NoError if none), the       *)
(* prepared entities and the fields remote pairing was resolved for.         *)

\* preparedEntities.find((entity) => entity.name === model.name): its index, 0 if none
EntityIndex(entities, name) == FirstIndex(entities, LAMBDA entity : entity.name = name)

EntityNotFound(st, model) ==
  [st EXCEPT !.error = ThrownError("EntityNotFound", <<model.name>>)]

\* entity.fields.push(entityField)
Push(st, e, entityField) ==
  [st EXCEPT !.entities[e].fields = Append(@, entityField)]

\* the builders of the categories whose payload does not depend on the schema:
\* Boolean, CreatedAt, UpdatedAt, DateTime, DecimalNumber, WholeNumber,
\* SingleLineText, Json
PlainProperties(dataType) ==
  CASE dataType = "DateTime" -> [kind |-> "DateTime", timeZone |-> "localTime", dateOnly |-> FALSE]
    [] dataType = "DecimalNumber" ->
         [kind |-> "DecimalNumber", minimumValue |-> 0, maximumValue |-> "99999999999",
          precision |-> 8]
    [] dataType = "WholeNumber" ->
         [kind |-> "WholeNumber", minimumValue |-> 0, maximumValue |-> "99999999999"]
    [] dataType = "SingleLineText" -> [kind |-> "SingleLineText", maxLength |-> 256]
    [] OTHER -> [kind |-> "none"]

convertPrismaPlainToEntityField(sch, model, field, st, dataType) ==
  LET e == EntityIndex(st.entities, model.name)
      entityField ==
        [createOneEntityFieldCommonProperties(field, dataType)
           EXCEPT !.properties = PlainProperties(dataType)]
  IN  IF e = 0 THEN EntityNotFound(st, model) ELSE Push(st, e, entityField)

\* idTypePropertyMapByFieldType and idTypePropertyMap of ./schema-utils
idTypePropertyMapByFieldType(fieldType) ==
  CASE fieldType = "Int" -> "AUTO_INCREMENT"
    [] fieldType = "String" -> "CUID"
    [] OTHER -> Undefined

idTypePropertyMap(generator) ==
  CASE generator = "autoincrement" -> "AUTO_INCREMENT"
    [] generator = "cuid" -> "CUID"
    [] generator = "uuid" -> "UUID"
    [] OTHER -> Undefined

convertPrismaIdToEntityField(sch, model, field, st) ==
  LET e == EntityIndex(st.entities, model.name)
      d == FirstIndex(field.attributes, LAMBDA attr : attr.name = "default")
      common == createOneEntityFieldCommonProperties(field, "Id")
      args == field.attributes[d].args
      idTypeName == IF args[1].kind = "function" THEN args[1].name ELSE "cuid"
      entityField ==
        IF d = 0
        THEN [common EXCEPT !.properties =
                [kind |-> "Id", idType |-> idTypePropertyMapByFieldType(field.fieldType)]]
        ELSE IF Len(args) > 0
        THEN [common EXCEPT !.properties =
                [kind |-> "Id", idType |-> idTypePropertyMap(idTypeName)]]
        ELSE common
  IN  IF e = 0 THEN EntityNotFound(st, model) ELSE Push(st, e, entityField)

\* enumOfTheField.enumerators.map(label = value = enumerator.name)
EnumOptions(enumOfTheField) ==
  [i \in 1..Len(enumOfTheField.enumerators) |->
     [label |-> enumOfTheField.enumerators[i], value |-> enumOfTheField.enumerators[i]]]

convertPrismaOptionSetToEntityField(sch, model, field, st) ==
  LET e == EntityIndex(st.entities, model.name)
      enums == EnumList(sch)
      k == FirstIndex(enums,
             LAMBDA item : formatModelName(item.name) = formatModelName(field.fieldType))
      entityField ==
        [createOneEntityFieldCommonProperties(field, "OptionSet")
           EXCEPT !.properties = [kind |-> "OptionSet", options |-> EnumOptions(enums[k])]]
  IN  IF e = 0 THEN EntityNotFound(st, model)
      ELSE IF k = 0
      THEN [st EXCEPT !.error = ThrownError("EnumNotFound", <<field.name>>)]
      ELSE Push(st, e, entityField)

convertPrismaMultiSelectOptionSetToEntityField(sch, model, field, st) ==
  LET e == EntityIndex(st.entities, model.name)
      enums == EnumList(sch)
      k == FirstIndex(enums, LAMBDA item : item.name = field.name)
      entityField ==
        [createOneEntityFieldCommonProperties(field, "MultiSelectOptionSet")
           EXCEPT !.properties =
             [kind |-> "MultiSelectOptionSet", options |-> EnumOptions(enums[k])]]
  IN  IF e = 0 THEN EntityNotFound(st, model)
      ELSE IF k = 0
      THEN [st EXCEPT !.error = ThrownError("EnumNotFound", <<field.name>>)]
      ELSE Push(st, e, entityField)

convertPrismaLookupToEntityField(sch, model, field, st) ==
  LET e == EntityIndex(st.entities, model.name)
      common == createOneEntityFieldCommonProperties(field, "Lookup")
      remoteModelAndField == findRemoteRelatedModelAndField(sch, model, field)
      called == [st EXCEPT !.pairing = Append(@, <<model.name, field.name>>)]
      remoteField == remoteModelAndField.remoteField
      \* createOneEntityFieldCommonProperties(remoteField, Lookup)
      relatedField == createOneEntityFieldCommonProperties(remoteField, "Lookup")
      re == EntityIndex(st.entities, remoteModelAndField.remoteModelName)
      entityField ==
        [name |-> common.name,
         dataType |-> common.dataType,
         required |-> common.required,
         unique |-> common.unique,
         relatedFieldName |-> relatedField.name,
         relatedFieldAllowMultipleSelection |-> remoteField.array,
         properties |->
           [kind |-> "Lookup",
            relatedEntityId |-> st.entities[re].id,
            allowMultipleSelection |-> field.array,
            fkHolder |-> "null"]]
  IN  IF e = 0 THEN EntityNotFound(st, model)
      ELSE IF remoteModelAndField.error # NoError
      THEN [called EXCEPT !.error = remoteModelAndField.error]
      ELSE IF ~remoteModelAndField.remoteFieldDefined
      \* field.name read on an undefined remoteField
      THEN [called EXCEPT !.error = TypeError("remoteField is undefined")]
      ELSE IF re = 0
      THEN [called EXCEPT !.error = TypeError("relatedEntity is undefined")]
      ELSE Push(called, e, entityField)

-----------------------------------------------------------------------------
(* The dispatch of convertPreparedSchemaForImportObjects: twelve `if`s, in   *)
(* this order, each asking resolveFieldDataType again.                       *)

DispatchOrder ==
  << "Boolean", "CreatedAt", "UpdatedAt", "DateTime", "DecimalNumber", "WholeNumber",
     "SingleLineText", "Json", "Id", "OptionSet", "MultiSelectOptionSet", "Lookup" >>

\* isDateTimeField that also answers true for the CreatedAt category
isDataTypeFieldLoose(sch, field, dataType) ==
  \/ resolveFieldDataType(sch, field) = dataType
  \/ (dataType = "DateTime" /\ resolveFieldDataType(sch, field) = "CreatedAt")

\* isBooleanField, isCreatedAtField, ..., isLookupField
isDataTypeField(sch, field, dataType) == resolveFieldDataType(sch, field) = dataType

convertPrismaToEntityField(dataType, sch, model, field, st) ==
  CASE dataType = "Id" -> convertPrismaIdToEntityField(sch, model, field, st)
    [] dataType = "OptionSet" -> convertPrismaOptionSetToEntityField(sch, model, field, st)
    [] dataType = "MultiSelectOptionSet" ->
         convertPrismaMultiSelectOptionSetToEntityField(sch, model, field, st)
    [] dataType = "Lookup" -> convertPrismaLookupToEntityField(sch, model, field, st)
    [] OTHER -> convertPrismaPlainToEntityField(sch, model, field, st, dataType)

RECURSIVE Dispatch(_, _, _, _, _)
Dispatch(sch, model, field, st, i) ==
  IF i > Len(DispatchOrder) \/ st.error # NoError THEN st
  ELSE IF resolveFieldDataType(sch, field) = UnsupportedDataType
  THEN [st EXCEPT !.error = ThrownError("UnsupportedDataType", <<field.fieldType>>)]
  ELSE IF isDataTypeField(sch, field, DispatchOrder[i])
  THEN Dispatch(sch, model, field,
                convertPrismaToEntityField(DispatchOrder[i], sch, model, field, st), i + 1)
  ELSE Dispatch(sch, model, field, st, i + 1)

-----------------------------------------------------------------------------
(* The prepared schemas the builder is run on: model Customer, enum Status and *)
(* model Order, each model with its primary key and up to MaxExtraFields of    *)
(* the fields below, in this order.                                            *)

RelationFields == KeyValueArr("fields", <<"customerId">>)
RelationReferences == KeyValueArr("references", <<"id">>)

CustomerId ==
  MkField("id", "Int", FALSE, FALSE,
          <<Attr("id", <<>>), Attr("default", <<FuncArg("autoincrement")>>)>>)

OrderId == MkField("id", "Int", FALSE, FALSE, <<Attr("id", <<>>)>>)

CustomerPool ==
  << MkField("name", "String", FALSE, FALSE, <<>>),
     MkField("orders", "Order", FALSE, TRUE, <<>>),
     MkField("orders", "Order", FALSE, TRUE, <<Attr("relation", <<StrArg("co")>>)>>),
     MkField("pastOrders", "Order", FALSE, TRUE, <<>>),
     MkField("status", "Status", FALSE, FALSE, <<>>),
     MkField("tags", "Status", FALSE, TRUE, <<Attr("unique", <<>>)>>) >>

OrderPool ==
  << MkField("customerId", "Int", FALSE, FALSE, <<>>),
     MkField("customer", "Customer", FALSE, FALSE,
             <<Attr("relation", <<RelationFields, RelationReferences>>)>>),
     MkField("customer", "Customer", FALSE, FALSE,
             <<Attr("relation", <<StrArg("co"), RelationFields, RelationReferences>>)>>),
     MkField("customer", "Customer", TRUE, FALSE,
             <<Attr("relation", <<StrArg("co"), RelationFields, RelationReferences>>),
               Attr("ignore", <<>>)>>),
     MkField("payer", "Customer", TRUE, FALSE,
             <<Attr("relation", <<RelationFields, RelationReferences>>)>>),
     MkField("createdAt", "DateTime", FALSE, FALSE, <<Attr("default", <<FuncArg("now")>>)>>),
     MkField("updatedAt", "DateTime", FALSE, FALSE, <<Attr("updatedAt", <<>>)>>),
     MkField("blob", "Bytes", TRUE, FALSE, <<>>) >>

StatusEnum == MkEnum("Status", <<"Active", "Inactive">>)

\* the index sets of at most MaxExtraFields fields of a pool with distinct names
Picks(pool) ==
  {S \in SUBSET (1..Len(pool)) :
     /\ Cardinality(S) <= MaxExtraFields
     /\ \A i, j \in S : pool[i].name = pool[j].name => i = j}

MkSchema(customerExtras, orderExtras) ==
  [list |-> << MkModel("Customer", <<CustomerId>> \o customerExtras),
               StatusEnum,
               MkModel("Order", <<OrderId>> \o orderExtras) >>]

Schemas ==
  {MkSchema(PickSeq(CustomerPool, C), PickSeq(OrderPool, O)) :
     C \in Picks(CustomerPool), O \in Picks(OrderPool)}

-----------------------------------------------------------------------------
(* The run of convertPreparedSchemaForImportObjects *)

NoCall == [called |-> FALSE]

\* processSchema is not running
NoPipeline == [round |-> 0]

Init ==
  /\ schema \in Schemas
  /\ pc = "start"
  /\ mi = 0
  /\ fi = 0
  /\ preparedEntities = <<>>
  /\ err = NoError
  /\ logged = <<>>
  /\ pairing = <<>>
  /\ callModel = 0
  /\ callField = NoField
  /\ callResult = NoCall
  /\ pipeline = NoPipeline

CurrentModel == ModelList(schema)[mi]
CurrentField == ModelFields(CurrentModel)[fi]
AtField ==
  /\ pc = "fields"
  /\ mi <= Len(ModelList(schema))
  /\ fi <= Len(ModelFields(CurrentModel))

LogEntry(level, text, model, field) ==
  [level |-> level, text |-> text, modelName |-> model.name, fieldName |-> field.name]

\* what isFkFieldOfARelation hands to the logger
FkLog(model, field) ==
  IF FkConflictLogged(model, field)
  THEN << LogEntry("error", "has more than one relation field", model, field),
          LogEntry("error", "has more than one relation field", model, field) >>
  ELSE <<>>

\* an entity prepared for every item of schema.list, enums included
PrepareEntitiesOverList ==
  /\ pc = "start"
  /\ preparedEntities' = [i \in 1..Len(schema.list) |-> prepareEntity(schema.list[i], i)]
  /\ mi' = 1
  /\ fi' = 1
  /\ pc' = "fields"
  /\ UNCHANGED <<schema, err, logged, pairing, callModel, callField, callResult, pipeline>>

\* const preparedEntities = modelList.map((model) => this.prepareEntity(model))
PrepareEntities ==
  /\ pc = "start"
  /\ preparedEntities' =
       [i \in 1..Len(ModelList(schema)) |-> prepareEntity(ModelList(schema)[i], i)]
  /\ mi' = 1
  /\ fi' = 1
  /\ pc' = "fields"
  /\ UNCHANGED <<schema, err, logged, pairing, callModel, callField, callResult, pipeline>>

\* if (this.isFkFieldOfARelation(schema, model, field)) { log; continue; }
SkipFkField ==
  /\ AtField
  /\ isFkFieldOfARelation(schema, CurrentModel, CurrentField)
  /\ logged' = logged \o FkLog(CurrentModel, CurrentField)
                 \o <<LogEntry("info", "FK field of a relation. Skip field creation",
                               CurrentModel, CurrentField)>>
  /\ fi' = fi + 1
  /\ UNCHANGED <<schema, pc, mi, preparedEntities, err, pairing,
                 callModel, callField, callResult, pipeline>>

\* if (this.isNotAnnotatedRelationField(schema, field)) { log; continue; }
SkipNotAnnotatedRelationField ==
  /\ AtField
  /\ ~isFkFieldOfARelation(schema, CurrentModel, CurrentField)
  /\ isNotAnnotatedRelationField(schema, CurrentField)
  /\ logged' = logged \o FkLog(CurrentModel, CurrentField)
                 \o <<LogEntry("info", "Not annotated relation field. Skip field creation",
                               CurrentModel, CurrentField)>>
  /\ fi' = fi + 1
  /\ UNCHANGED <<schema, pc, mi, preparedEntities, err, pairing,
                 callModel, callField, callResult, pipeline>>

\* the state the twelve `if`s leave for the current field
Dispatched ==
  Dispatch(schema, CurrentModel, CurrentField,
           [error |-> NoError, entities |-> preparedEntities, pairing |-> pairing], 1)

ConvertField ==
  /\ AtField
  /\ ~isFkFieldOfARelation(schema, CurrentModel, CurrentField)
  /\ ~isNotAnnotatedRelationField(schema, CurrentField)
  /\ Dispatched.error = NoError
  /\ preparedEntities' = Dispatched.entities
  /\ pairing' = Dispatched.pairing
  /\ logged' = logged \o FkLog(CurrentModel, CurrentField)
  /\ fi' = fi + 1
  /\ UNCHANGED <<schema, pc, mi, err, callModel, callField, callResult, pipeline>>

\* an error thrown while the field is converted ends the run
ConvertFieldThrows ==
  /\ AtField
  /\ ~isFkFieldOfARelation(schema, CurrentModel, CurrentField)
  /\ ~isNotAnnotatedRelationField(schema, CurrentField)
  /\ Dispatched.error # NoError
  /\ err' = Dispatched.error
  /\ preparedEntities' = Dispatched.entities
  /\ pairing' = Dispatched.pairing
  /\ logged' = logged \o FkLog(CurrentModel, CurrentField)
  /\ pc' = "failed"
  /\ UNCHANGED <<schema, mi, fi, callModel, callField, callResult, pipeline>>

\* the inner loop is over: the next model of modelList
NextModel ==
  /\ pc = "fields"
  /\ mi <= Len(ModelList(schema))
  /\ fi > Len(ModelFields(CurrentModel))
  /\ mi' = mi + 1
  /\ fi' = 1
  /\ UNCHANGED <<schema, pc, preparedEntities, err, logged, pairing,
                 callModel, callField, callResult, pipeline>>

\* return preparedEntities
ReturnEntities ==
  /\ pc = "fields"
  /\ mi > Len(ModelList(schema))
  /\ pc' = "done"
  /\ UNCHANGED <<schema, mi, fi, preparedEntities, err, logged, pairing,
                 callModel, callField, callResult, pipeline>>

Next ==
  \/ PrepareEntities
  \/ SkipFkField
  \/ SkipNotAnnotatedRelationField
  \/ ConvertField
  \/ ConvertFieldThrows
  \/ NextModel
  \/ ReturnEntities

Spec == Init /\ [][Next]_vars

-----------------------------------------------------------------------------
(* Direct calls of the classifier: resolveFieldDataType(schema, field) on a   *)
(* field with any type below and up to MaxAttrs of the attributes below, in  *)
(* this order, against a prepared schema, an empty schema and a schema that  *)
(* is not yet normalized.                                                    *)

ScenarioSchema ==
  MkSchema(<< CustomerPool[1], CustomerPool[2] >>, << OrderPool[1], OrderPool[2] >>)

EmptySchema == [list |-> <<>>]

RawSchema ==
  [list |-> << MkModel("customers", <<CustomerId>>), StatusEnum,
               MkModel("orders", <<OrderId>>) >>]

ClassifySchemas == {ScenarioSchema, EmptySchema, RawSchema}

ClassifyTypes ==
  {"String", "Int", "Float", "Boolean", "DateTime", "Json", "Bytes",
   "Customer", "Order", "orders", "Status", "Ghost"}

ClassifyAttrPool ==
  << Attr("id", <<>>),
     Attr("unique", <<>>),
     Attr("default", <<FuncArg("now")>>),
     Attr("default", <<NumArg>>),
     Attr("updatedAt", <<>>),
     Attr("relation", <<RelationFields, RelationReferences>>) >>

ClassifyAttrs ==
  {PickSeq(ClassifyAttrPool, S) :
     S \in {T \in SUBSET (1..Len(ClassifyAttrPool)) : Cardinality(T) <= MaxAttrs}}

ClassifyFields ==
  {MkField("f", t, FALSE, arr, attrs) :
     t \in ClassifyTypes, arr \in BOOLEAN, attrs \in ClassifyAttrs}

InitClassify ==
  /\ schema \in ClassifySchemas
  /\ callField \in ClassifyFields
  /\ pc = "classify"
  /\ mi = 0
  /\ fi = 0
  /\ preparedEntities = <<>>
  /\ err = NoError
  /\ logged = <<>>
  /\ pairing = <<>>
  /\ callModel = 0
  /\ callResult = NoCall
  /\ pipeline = NoPipeline

\* this.resolveFieldDataType(schema, field)
CallResolveFieldDataType ==
  /\ pc = "classify"
  /\ callResult' = [called |-> TRUE, value |-> resolveFieldDataType(schema, callField)]
  /\ pc' = "classified"
  /\ UNCHANGED <<schema, mi, fi, preparedEntities, err, logged, pairing,
                 callModel, callField, pipeline>>

NextClassify == CallResolveFieldDataType

SpecClassify == InitClassify /\ [][NextClassify]_vars

-----------------------------------------------------------------------------
(* Direct calls of the public convertPrismaLookupToEntityField(schema, model, *)
(* field, preparedEntities) on a Lookup field of a model of a prepared        *)
(* schema, with the entities prepared from that schema.                       *)

InitLookup ==
  /\ schema \in Schemas
  /\ callModel \in 1..Len(ModelList(schema))
  /\ callField \in {ModelFields(ModelList(schema)[callModel])[i] :
                      i \in 1..Len(ModelFields(ModelList(schema)[callModel]))}
  /\ resolveFieldDataType(schema, callField) = "Lookup"
  /\ pc = "callLookup"
  /\ mi = 0
  /\ fi = 0
  /\ preparedEntities =
       [i \in 1..Len(ModelList(schema)) |-> prepareEntity(ModelList(schema)[i], i)]
  /\ err = NoError
  /\ logged = <<>>
  /\ pairing = <<>>
  /\ callResult = NoCall
  /\ pipeline = NoPipeline

CallConvertPrismaLookupToEntityField ==
  /\ pc = "callLookup"
  /\ LET model == ModelList(schema)[callModel]
         st == convertPrismaLookupToEntityField(schema, model, callField,
                 [error |-> NoError, entities |-> preparedEntities, pairing |-> pairing])
     IN  /\ callResult' = [called |-> TRUE,
                           value |-> findRemoteRelatedModelAndField(schema, model, callField)]
         /\ preparedEntities' = st.entities
         /\ pairing' = st.pairing
         /\ err' = st.error
         /\ pc' = IF st.error = NoError THEN "lookupReturned" ELSE "lookupThrew"
  /\ UNCHANGED <<schema, mi, fi, logged, callModel, callField, pipeline>>

NextLookup == CallConvertPrismaLookupToEntityField

SpecLookup == InitLookup /\ [][NextLookup]_vars

-----------------------------------------------------------------------------
(* Properties of the classifier, checked under SpecClassify *)

Classified == pc = "classified"

\* the declared type equals the name of a declared Enumeration
TypeIsEnumName(sch, field) ==
  \E i \in 1..Len(sch.list) :
    sch.list[i].type = ENUM_TYPE_NAME /\ sch.list[i].name = field.fieldType

\* the declared type names, by canonical name, a declared Record-Type
TypeNamesModel(sch, field) ==
  \E i \in 1..Len(sch.list) :
    /\ sch.list[i].type = MODEL_TYPE_NAME
    /\ formatModelName(sch.list[i].name) = formatModelName(field.fieldType)

HasPrimaryKey(field) == \E i \in 1..Len(field.attributes) : field.attributes[i].name = "id"
HasRelation(field) == \E i \in 1..Len(field.attributes) : field.attributes[i].name = "relation"
HasAutoUpdate(field) ==
  \E i \in 1..Len(field.attributes) : field.attributes[i].name = "updatedAt"
HasDefaultOfNow(field) ==
  \E i \in 1..Len(field.attributes) :
    /\ field.attributes[i].name = "default"
    /\ \E j \in 1..Len(field.attributes[i].args) :
         /\ field.attributes[i].args[j].kind = "function"
         /\ field.attributes[i].args[j].name = "now"

ScalarMapping ==
  { <<"String", "SingleLineText">>, <<"Int", "WholeNumber">>, <<"Float", "DecimalNumber">>,
    <<"Boolean", "Boolean">>, <<"DateTime", "DateTime">>, <<"Json", "Json">> }

\* C1: a field whose declared type is the name of a declared Enumeration, whose
\* array flag is true and which carries no primary-key or relation attribute is
\* classified MultiSelectOptionSet, never OptionSet.
C1_EnumArrayIsMultiSelect ==
  ( /\ Classified
    /\ TypeIsEnumName(schema, callField)
    /\ callField.array
    /\ ~HasPrimaryKey(callField)
    /\ ~HasRelation(callField) )
  => callResult.value = "MultiSelectOptionSet"

\* C2: the result is the category of the first matching predicate in the order
\* Id, Lookup by relation attribute, Lookup by Record-Type name, option set,
\* CreatedAt, UpdatedAt, scalar mapping: a primary-key attribute gives Id
\* whatever else the field has, and a default of now() without an earlier
\* match gives CreatedAt, not UpdatedAt and not DateTime.
C2_FirstMatchWins ==
  Classified =>
    LET f == callField
        r == callResult.value
        p1 == HasPrimaryKey(f)
        p2 == HasRelation(f)
        p3 == TypeNamesModel(schema, f)
        p4 == TypeIsEnumName(schema, f)
        p5 == HasDefaultOfNow(f)
        p6 == HasAutoUpdate(f)
    IN  /\ p1 => r = "Id"
        /\ (~p1 /\ (p2 \/ p3)) => r = "Lookup"
        /\ (~p1 /\ ~p2 /\ ~p3 /\ p4) => r \in {"OptionSet", "MultiSelectOptionSet"}
        /\ (~p1 /\ ~p2 /\ ~p3 /\ p4 /\ ~f.array) => r = "OptionSet"
        /\ (~p1 /\ ~p2 /\ ~p3 /\ ~p4 /\ p5) => r = "CreatedAt"
        /\ (~p1 /\ ~p2 /\ ~p3 /\ ~p4 /\ ~p5 /\ p6) => r = "UpdatedAt"
        /\ (~p1 /\ ~p2 /\ ~p3 /\ ~p4 /\ ~p5 /\ ~p6) =>
             \/ <<f.fieldType, r>> \in ScalarMapping
             \/ /\ r = UnsupportedDataType
                /\ \A pair \in ScalarMapping : pair[1] # f.fieldType

\* a DateTime field with a default of now() and no auto-update attribute has
\* been classified CreatedAt
C2_Witness ==
  /\ Classified
  /\ callField.fieldType = "DateTime"
  /\ HasDefaultOfNow(callField)
  /\ ~HasAutoUpdate(callField)
  /\ ~HasPrimaryKey(callField)
  /\ callResult.value = "CreatedAt"

\* C3: every call returns one of the twelve categories or raises the
\* 'Unsupported data type' error (never an undefined result), the error being
\* raised only for a field no predicate matches, and the call leaves the
\* schema and the field as they were.
C3_TotalAndPure ==
  [][ pc = "classify" =>
        /\ callResult'.value \in EnumDataType \cup {UnsupportedDataType}
        /\ callResult'.value = UnsupportedDataType =>
             /\ ~HasPrimaryKey(callField) /\ ~HasRelation(callField)
             /\ ~TypeNamesModel(schema, callField) /\ ~TypeIsEnumName(schema, callField)
             /\ ~HasDefaultOfNow(callField) /\ ~HasAutoUpdate(callField)
             /\ \A pair \in ScalarMapping : pair[1] # callField.fieldType
        /\ schema' = schema
        /\ callField' = callField ]_vars

\* a field of an unsupported type, with no attribute that classifies it, has
\* raised the error
C3_Witness ==
  /\ Classified
  /\ callField.fieldType = "Bytes"
  /\ callResult.value = UnsupportedDataType

-----------------------------------------------------------------------------
(* Properties of the builder, checked under Spec *)

\* the number of fields of model carrying a relation attribute whose `fields`
\* argument lists the name
OwningFieldCount(model, name) ==
  Cardinality(
    {i \in 1..Len(model.properties) :
       /\ model.properties[i].type = FIELD_TYPE_NAME
       /\ \E a \in 1..Len(model.properties[i].attributes) :
            LET attr == model.properties[i].attributes[a]
            IN  /\ attr.name = "relation"
                /\ \E g \in 1..Len(attr.args) :
                     /\ attr.args[g].kind = "keyValue"
                     /\ attr.args[g].key = "fields"
                     /\ \E k \in 1..Len(attr.args[g].list) : attr.args[g].list[k] = name})

HasOwningColumns(field) ==
  \E a \in 1..Len(field.attributes) :
    /\ field.attributes[a].name = "relation"
    /\ \E g \in 1..Len(field.attributes[a].args) :
         /\ field.attributes[a].args[g].kind = "keyValue"
         /\ field.attributes[a].args[g].key = "fields"

HasRelationName(field) ==
  \E a \in 1..Len(field.attributes) :
    /\ field.attributes[a].name = "relation"
    /\ \E g \in 1..Len(field.attributes[a].args) : field.attributes[a].args[g].kind = "string"

\* the declared type is the name of a declared Record-Type
TypeIsModelName(sch, field) ==
  \E i \in 1..Len(sch.list) :
    sch.list[i].type = MODEL_TYPE_NAME /\ sch.list[i].name = field.fieldType

\* the descriptors of the entity named name, <<>> if there is none
FieldsOfEntity(name) ==
  IF \E i \in 1..Len(preparedEntities) : preparedEntities[i].name = name
  THEN preparedEntities[CHOOSE i \in 1..Len(preparedEntities) :
                          preparedEntities[i].name = name].fields
  ELSE <<>>

IdOfEntity(name) ==
  preparedEntities[CHOOSE i \in 1..Len(preparedEntities) : preparedEntities[i].name = name].id

DescriptorNames(fields) == [i \in 1..Len(fields) |-> fields[i].name]

\* C4 as stated: for the Customer / Order scenario the conversion completes
\* with two entities, Order.customerId gets no descriptor, and Order.customer
\* and Customer.orders both become Lookup descriptors, each one's
\* relatedEntityId being the id of the other's entity.
C4_ScenarioBothSidesEmitted ==
  schema = ScenarioSchema =>
    /\ pc # "failed"
    /\ pc = "done" =>
         /\ Len(preparedEntities) = 2
         /\ \A i \in 1..Len(FieldsOfEntity("Order")) :
              FieldsOfEntity("Order")[i].name # "customerId"
         /\ \E i \in 1..Len(FieldsOfEntity("Order")) :
              LET d == FieldsOfEntity("Order")[i]
              IN  /\ d.name = "customer" /\ d.dataType = "Lookup"
                  /\ d.properties.relatedEntityId = IdOfEntity("Customer")
         /\ \E i \in 1..Len(FieldsOfEntity("Customer")) :
              LET d == FieldsOfEntity("Customer")[i]
              IN  /\ d.name = "orders" /\ d.dataType = "Lookup"
                  /\ d.properties.relatedEntityId = IdOfEntity("Order")

\* C4 as amended: the conversion completes with two entities; Order.customerId
\* and Customer.orders get no descriptor; Order.customer is the one Lookup
\* descriptor of the pair: its relatedEntityId is the id of Customer's entity
\* and it names Customer.orders as its related field.
C4_ScenarioOwningSideEmitted ==
  schema = ScenarioSchema =>
    /\ pc # "failed"
    /\ pc = "done" =>
         /\ Len(preparedEntities) = 2
         /\ preparedEntities[1].id # preparedEntities[2].id
         /\ DescriptorNames(FieldsOfEntity("Customer")) = <<"id", "name">>
         /\ DescriptorNames(FieldsOfEntity("Order")) = <<"id", "customer">>
         /\ LET d == FieldsOfEntity("Order")[2]
            IN  /\ d.dataType = "Lookup"
                /\ d.properties.relatedEntityId = IdOfEntity("Customer")
                /\ d.properties.allowMultipleSelection = FALSE
                /\ d.relatedFieldName = "orders"
                /\ d.relatedFieldAllowMultipleSelection = TRUE

\* the scenario has been converted
C4_Witness == schema = ScenarioSchema /\ pc = "done"


SkipFkText == "FK field of a relation. Skip field creation"
SkipNotAnnotatedText == "Not annotated relation field. Skip field creation"

\* the step taken from this state handed the logger an entry with this text
\* about the current field
StepLogged(level, text) ==
  \E i \in (Len(logged) + 1)..Len(logged') :
    logged'[i] = LogEntry(level, text, CurrentModel, CurrentField)

\* the step appended exactly one descriptor, to the current model's entity,
\* and it describes the current field
StepEmittedOne ==
  /\ Len(preparedEntities') = Len(preparedEntities)
  /\ \A i \in 1..Len(preparedEntities) :
       IF preparedEntities[i].name = CurrentModel.name
       THEN /\ Len(preparedEntities'[i].fields) = Len(preparedEntities[i].fields) + 1
            /\ SubSeq(preparedEntities'[i].fields, 1, Len(preparedEntities[i].fields))
                 = preparedEntities[i].fields
            /\ preparedEntities'[i].fields[Len(preparedEntities'[i].fields)].name
                 = CurrentField.name
       ELSE preparedEntities'[i] = preparedEntities[i]

\* C5: a field is skipped as a foreign-key storage column exactly when exactly
\* one field of its Record-Type carries a relation attribute whose `fields`
\* lists its name, and then it gets no descriptor; when two or more list it the
\* conflict is logged as an error, nothing is thrown for it, and the field is
\* handled as a field that is no foreign-key column: a scalar one is emitted as
\* an ordinary descriptor.
C5_FkStorageColumn ==
  [][ AtField =>
        LET n == OwningFieldCount(CurrentModel, CurrentField.name)
        IN  /\ StepLogged("info", SkipFkText) <=> n = 1
            /\ n = 1 => (preparedEntities' = preparedEntities /\ pc' = "fields")
            /\ StepLogged("error", "has more than one relation field") <=> n > 1
            /\ (n > 1 /\ <<CurrentField.fieldType, "WholeNumber">> \in ScalarMapping
                      /\ CurrentField.attributes = <<>>) =>
                 /\ pc' = "fields"
                 /\ err' = NoError
                 /\ StepEmittedOne
                 /\ LET fs == FieldsOfEntity(CurrentModel.name)'
                    IN  fs[Len(fs)].dataType = "WholeNumber" ]_vars

\* a column two relation fields claim has been logged as a conflict and
\* emitted as a descriptor of its own
C5_Witness ==
  /\ \E i \in 1..Len(logged) : logged[i].level = "error" /\ logged[i].fieldName = "customerId"
  /\ \E i \in 1..Len(FieldsOfEntity("Order")) : FieldsOfEntity("Order")[i].name = "customerId"

C7_OwningSideEmitted ==
  pc = "done" =>
    \A m \in 1..Len(ModelList(schema)) :
      \A f \in 1..Len(ModelFields(ModelList(schema)[m])) :
        LET model == ModelList(schema)[m]
            field == ModelFields(model)[f]
        IN  HasOwningColumns(field) =>
              \E i \in 1..Len(FieldsOfEntity(model.name)) :
                /\ FieldsOfEntity(model.name)[i].name = field.name
                /\ FieldsOfEntity(model.name)[i].dataType = "Lookup"


\* the fields among the first upto fields of model that the builder does not
\* skip, in declaration order
SurvivingFields(sch, model, upto) ==
  SelectSeq(SubSeq(ModelFields(model), 1, upto),
    LAMBDA field :
      /\ OwningFieldCount(model, field.name) # 1
      /\ ~isNotAnnotatedRelationField(sch, field))

\* how many fields of the i-th model the run has dealt with
FieldsDone(i) ==
  IF pc = "start" \/ i > mi THEN 0
  ELSE IF i < mi THEN Len(ModelFields(ModelList(schema)[i]))
  ELSE fi - 1

-----------------------------------------------------------------------------
(* Properties of remote field pairing, checked under SpecLookup *)

LookupCalled == pc \in {"lookupReturned", "lookupThrew"}

\* the name the field's relation attribute carries
RelationNamesOf(field) ==
  UNION { {field.attributes[a].args[g].str :
             g \in {y \in 1..Len(field.attributes[a].args) :
                      field.attributes[a].args[y].kind = "string"}} :
          a \in {x \in 1..Len(field.attributes) : field.attributes[x].name = "relation"} }

\* the Record-Type the field's type names
RemoteModelOf(sch, field) ==
  sch.list[CHOOSE i \in 1..Len(sch.list) :
             /\ sch.list[i].type = MODEL_TYPE_NAME
             /\ formatModelName(sch.list[i].name) = formatModelName(field.fieldType)]

\* C8: whenever the field's relation attribute carries a name, whatever other
\* attributes the field has and wherever they stand, the named rule is the one
\* used and a remote field that is returned carries a relation attribute with
\* that name.
C8_NamedRelationPairsByName ==
  ( /\ LookupCalled
    /\ TypeNamesModel(schema, callField)
    /\ HasRelationName(callField) )
  => /\ callResult.value.named
     /\ callResult.value.remoteFieldDefined =>
          RelationNamesOf(callResult.value.remoteField) \cap RelationNamesOf(callField) # {}

\* C9: in the named and in the unnamed case alike, when no field or more than
\* one field of the remote Record-Type matches, the call raises an error that
\* names both Record-Types; it returns no result without a remote field and
\* picks none of several candidates.
C9_ExactlyOneMatchOrFatal ==
  (LookupCalled /\ TypeNamesModel(schema, callField)) =>
    LET model == ModelList(schema)[callModel]
        remoteModel == RemoteModelOf(schema, callField)
        candidates == ModelFields(remoteModel)
        matches ==
          IF callResult.value.named
          THEN {i \in 1..Len(candidates) :
                  RelationNamesOf(candidates[i]) \cap RelationNamesOf(callField) # {}}
          ELSE {i \in 1..Len(candidates) :
                  /\ formatModelName(candidates[i].fieldType) = formatModelName(model.name)
                  /\ ~HasRelation(candidates[i])}
    IN  Cardinality(matches) # 1 =>
          /\ pc = "lookupThrew"
          /\ err.type = "Error"
          /\ err.names = <<remoteModel.name, model.name>>

-----------------------------------------------------------------------------
(* Properties of entity preparation, checked under Spec *)

\* C11: the run holds one entity per Record-Type of the schema, in declaration
\* order and none for an Enumeration; the ids are assigned while no field has
\* been dealt with (nothing is logged or paired before), and no later step
\* changes the id or the name of an entity.
C11_OneEntityPerModelIdFixed ==
  /\ [](pc = "start" => (preparedEntities = <<>> /\ logged = <<>> /\ pairing = <<>>))
  /\ [](pc # "start" =>
         /\ Len(preparedEntities) = Len(ModelList(schema))
         /\ \A i \in 1..Len(preparedEntities) :
              /\ preparedEntities[i].name = ModelList(schema)[i].name
              /\ preparedEntities[i].id = prepareEntity(ModelList(schema)[i], i).id
              /\ pc = "fields" /\ mi = 1 /\ fi = 1 => preparedEntities[i].fields = <<>>)
  /\ [][pc # "start" =>
         /\ Len(preparedEntities') = Len(preparedEntities)
         /\ \A i \in 1..Len(preparedEntities) :
              /\ preparedEntities'[i].id = preparedEntities[i].id
              /\ preparedEntities'[i].name = preparedEntities[i].name]_vars

\* a conversion has returned, for a schema that declares an Enumeration
\* between two Record-Types, with descriptors added to both entities
C11_Witness ==
  /\ pc = "done"
  /\ Len(schema.list) = 3
  /\ Len(preparedEntities) = 2
  /\ \A i \in 1..Len(preparedEntities) : Len(preparedEntities[i].fields) >= 2

-----------------------------------------------------------------------------
(* The schema builder the operations edit the schema with                    *)
(* (ConcretePrismaSchemaBuilder of @mrleebo/prisma-ast). builder.getSchema() *)
(* is the live tree: an edit made through the builder is seen by the loops   *)
(* of the operation that made it. A model or field is addressed by its name: *)
(* builder.model(name) and .field(name) take the last block of that name and *)
(* put a new one at the end when there is none.                              *)

Max(S) == CHOOSE x \in S : \A y \in S : y <= x

\* builder.model(name): the schema and the position in schema.list of the subject
BuilderModel(sch, name) ==
  LET hits == {i \in 1..Len(sch.list) :
                 sch.list[i].type = MODEL_TYPE_NAME /\ sch.list[i].name = name}
  IN  IF hits # {}
      THEN [schema |-> sch, m |-> Max(hits)]
      ELSE [schema |-> [sch EXCEPT !.list = Append(@, MkModel(name, <<>>))],
            m |-> Len(sch.list) + 1]

\* builder.model(modelName).field(fieldName) with the first field of that name
BuilderFieldFirst(sch, modelName, fieldName) ==
  LET b == BuilderModel(sch, modelName)
      props == b.schema.list[b.m].properties
      hits == {p \in 1..Len(props) :
                 props[p].type = FIELD_TYPE_NAME /\ props[p].name = fieldName}
  IN  IF hits # {}
      THEN [schema |-> b.schema, m |-> b.m, p |-> Min(hits)]
      ELSE [schema |-> [b.schema EXCEPT !.list[b.m].properties =
                          Append(@, MkField(fieldName, "String", FALSE, FALSE, <<>>))],
            m |-> b.m, p |-> Len(props) + 1]

\* builder.model(modelName).field(fieldName): the schema and the positions of
\* the parent model and of the subject field
BuilderField(sch, modelName, fieldName) ==
  LET b == BuilderModel(sch, modelName)
      props == b.schema.list[b.m].properties
      hits == {p \in 1..Len(props) :
                 props[p].type = FIELD_TYPE_NAME /\ props[p].name = fieldName}
  IN  IF hits # {}
      THEN [schema |-> b.schema, m |-> b.m, p |-> Max(hits)]
      ELSE [schema |-> [b.schema EXCEPT !.list[b.m].properties =
                          Append(@, MkField(fieldName, "String", FALSE, FALSE, <<>>))],
            m |-> b.m, p |-> Len(props) + 1]

\* .blockAttribute("map", value): the property pushed to the model
MapBlockAttribute(value) ==
  [type |-> "attribute", kind |-> "model", name |-> "map", args |-> <<StrArg(value)>>]

\* .attribute("map", [`"${value}"`]): the attribute pushed to the field
MapAttribute(value) == Attr("map", <<StrArg(value)>>)

-----------------------------------------------------------------------------
(* Name tests of the operations, over the names the model uses *)

\* pluralize.isPlural(name); a noun without a plural form of its own, such as
\* "Equipment", is its own plural
isPlural(n) == n \in {"orders", "customers", "order_items", "Equipment"}

\* name.includes("_")
IncludesUnderscore(n) ==
  n \in {"order_items", "customer_id", "created_at", "order_status", "order_id"}

\* /^[A-Z]/.test(name)
StartsUpperCase(n) ==
  n \in {"Order", "Customer", "Class", "ClassModel", "Equipment", "OrderItem", "Status"}

\* name.toLowerCase().trim()
toLowerCase(n) ==
  CASE n = "Order" -> "order"
    [] n = "Customer" -> "customer"
    [] n = "Class" -> "class"
    [] n = "ClassModel" -> "classmodel"
    [] n = "Equipment" -> "equipment"
    [] n = "classField" -> "classfield"
    [] n = "OrderItem" -> "orderitem"
    [] OTHER -> n

\* isReservedName of ../entity/reservedNames
isReservedName(n) == n \in {"class"}

\* the positions in sch.list of the models, in order
ModelPositions(sch) ==
  PickSeq([i \in 1..Len(sch.list) |-> i],
          {i \in 1..Len(sch.list) : sch.list[i].type = MODEL_TYPE_NAME})

-----------------------------------------------------------------------------
(* The operations of processSchema. Each takes the schema of the builder and *)
(* gives [schema, error]: the schema it leaves and the error it threw        *)
(* (NoError if it returned).                                                 *)

Returned(sch) == [schema |-> sch, error |-> NoError]

\* the positions in model.properties of the fields for which keep holds, in order
FieldPositions(model, keep(_)) ==
  PickSeq([p \in 1..Len(model.properties) |-> p],
          {p \in 1..Len(model.properties) :
             model.properties[p].type = FIELD_TYPE_NAME /\ keep(model.properties[p])})

\* the test without the reserved-word disjunct
isInvalidModelNameNoReserved(n) ==
  \/ isPlural(n)
  \/ IncludesUnderscore(n)
  \/ ~StartsUpperCase(n)

isInvalidModelName(n) ==
  \/ isPlural(n)
  \/ IncludesUnderscore(n)
  \/ ~StartsUpperCase(n)
  \/ isReservedName(toLowerCase(n))

\* models.map(...) of handleModelNamesRenaming, from the k-th model on
RECURSIVE RenameModels(_, _, _)
RenameModels(sch, models, k) ==
  IF k > Len(models) THEN sch
  ELSE LET model == sch.list[models[k]]
       IN  IF isInvalidModelName(model.name)
           THEN LET b == BuilderModel(sch, model.name)
                    mapped == [b.schema EXCEPT !.list[b.m].properties =
                                 Append(@, MapBlockAttribute(model.name))]
                    renamed == [mapped EXCEPT !.list[b.m].name = formatModelName(@)]
                IN  RenameModels(renamed, models, k + 1)
           ELSE RenameModels(sch, models, k + 1)

handleModelNamesRenaming(sch) == Returned(RenameModels(sch, ModelPositions(sch), 1))

isInvalidFieldName(n) == IncludesUnderscore(n) \/ isReservedName(toLowerCase(n))

\* fields.map(...) of handleFieldNamesRenaming for the model at position m,
\* from the k-th field on
RECURSIVE RenameFields(_, _, _, _)
RenameFields(r, m, fields, k) ==
  IF k > Len(fields) \/ r.error # NoError THEN r
  ELSE LET sch == r.schema
           model == sch.list[m]
           field == model.properties[fields[k]]
           isFkHolder == isFkFieldOfARelation(sch, model, field)
           dataType == resolveFieldDataType(sch, field)
           isEnumFieldType == dataType \in {"OptionSet", "MultiSelectOptionSet"}
       IN  IF dataType = UnsupportedDataType
           THEN [r EXCEPT !.error = ThrownError("UnsupportedDataType", <<field.fieldType>>)]
           ELSE IF isInvalidFieldName(field.name) /\ ~isEnumFieldType /\ ~isFkHolder
           THEN LET b == BuilderField(sch, model.name, field.name)
                    mapped == [b.schema EXCEPT !.list[b.m].properties[b.p].attributes =
                                 Append(@, MapAttribute(field.name))]
                    renamed == [mapped EXCEPT !.list[b.m].properties[b.p].name =
                                  formatFieldName(@)]
                IN  RenameFields([r EXCEPT !.schema = renamed], m, fields, k + 1)
           ELSE RenameFields(r, m, fields, k + 1)

\* models.map(...) of handleFieldNamesRenaming, from the k-th model on
RECURSIVE RenameFieldsOfModels(_, _, _)
RenameFieldsOfModels(r, models, k) ==
  IF k > Len(models) \/ r.error # NoError THEN r
  ELSE LET fields == FieldPositions(r.schema.list[models[k]],
                       LAMBDA property : ~HasAttribute(property, ID_ATTRIBUTE_NAME))
       IN  RenameFieldsOfModels(RenameFields(r, models[k], fields, 1), models, k + 1)

handleFieldNamesRenaming(sch) ==
  RenameFieldsOfModels(Returned(sch), ModelPositions(sch), 1)

\* fields.map(...) of handleFieldTypesRenaming for the model at position m
RECURSIVE RenameFieldTypes(_, _, _, _)
RenameFieldTypes(r, m, fields, k) ==
  IF k > Len(fields) \/ r.error # NoError THEN r
  ELSE LET sch == r.schema
           model == sch.list[m]
           field == model.properties[fields[k]]
           dataType == resolveFieldDataType(sch, field)
           isEnumFieldType == dataType \in {"OptionSet", "MultiSelectOptionSet"}
           isScalarFieldType ==
             dataType \in {"SingleLineText", "WholeNumber", "DecimalNumber",
                           "Boolean", "DateTime", "Json"}
       IN  IF dataType = UnsupportedDataType
           THEN [r EXCEPT !.error = ThrownError("UnsupportedDataType", <<field.fieldType>>)]
           ELSE IF ~isEnumFieldType /\ ~isScalarFieldType
           THEN LET b == BuilderField(sch, model.name, field.name)
                    retyped == [b.schema EXCEPT !.list[b.m].properties[b.p].fieldType =
                                  formatModelName(@)]
                IN  RenameFieldTypes([r EXCEPT !.schema = retyped], m, fields, k + 1)
           ELSE RenameFieldTypes(r, m, fields, k + 1)

RECURSIVE RenameFieldTypesOfModels(_, _, _)
RenameFieldTypesOfModels(r, models, k) ==
  IF k > Len(models) \/ r.error # NoError THEN r
  ELSE LET fields == FieldPositions(r.schema.list[models[k]], LAMBDA property : TRUE)
       IN  RenameFieldTypesOfModels(RenameFieldTypes(r, models[k], fields, 1),
                                    models, k + 1)

handleFieldTypesRenaming(sch) ==
  RenameFieldTypesOfModels(Returned(sch), ModelPositions(sch), 1)

\* modelFields.forEach(...) of handleIdField for the model at position m
RECURSIVE RenameIdFields(_, _, _, _)
RenameIdFields(sch, m, fields, k) ==
  IF k > Len(fields) THEN sch
  ELSE LET model == sch.list[m]
           field == model.properties[fields[k]]
           isIdField == HasAttribute(field, ID_ATTRIBUTE_NAME)
       IN  IF ~isIdField /\ field.name = ID_FIELD_NAME
           THEN LET b == BuilderField(sch, model.name, field.name)
                    mapped == [b.schema EXCEPT !.list[b.m].properties[b.p].attributes =
                                 Append(@, MapAttribute(model.name \o "Id"))]
                    renamed == [mapped EXCEPT !.list[b.m].properties[b.p].name =
                                  model.name \o "Id"]
                IN  RenameIdFields(renamed, m, fields, k + 1)
           ELSE IF isIdField /\ field.name # ID_FIELD_NAME
           THEN LET b == BuilderField(sch, model.name, field.name)
                    mapped == [b.schema EXCEPT !.list[b.m].properties[b.p].attributes =
                                 Append(@, MapAttribute(field.name))]
                    renamed == [mapped EXCEPT !.list[b.m].properties[b.p].name =
                                  ID_FIELD_NAME]
                IN  RenameIdFields(renamed, m, fields, k + 1)
           ELSE RenameIdFields(sch, m, fields, k + 1)

RECURSIVE RenameIdFieldsOfModels(_, _, _)
RenameIdFieldsOfModels(sch, models, k) ==
  IF k > Len(models) THEN sch
  ELSE LET fields == FieldPositions(sch.list[models[k]], LAMBDA property : TRUE)
       IN  RenameIdFieldsOfModels(RenameIdFields(sch, models[k], fields, 1),
                                  models, k + 1)

handleIdField(sch) == Returned(RenameIdFieldsOfModels(sch, ModelPositions(sch), 1))

\* private operations = [handleModelNamesRenaming, handleFieldNamesRenaming,
\*                       handleFieldTypesRenaming, handleIdField]
operations ==
  <<"handleModelNamesRenaming", "handleFieldNamesRenaming",
    "handleFieldTypesRenaming", "handleIdField">>

\* operation.call(this, builder)
CallOperation(operation, sch) ==
  CASE operation = "handleModelNamesRenaming" -> handleModelNamesRenaming(sch)
    [] operation = "handleFieldNamesRenaming" -> handleFieldNamesRenaming(sch)
    [] operation = "handleFieldTypesRenaming" -> handleFieldTypesRenaming(sch)
    [] operation = "handleIdField" -> handleIdField(sch)

-----------------------------------------------------------------------------
(* The schemas processSchema is run on, as parsed: a model A, enum Status and *)
(* a model B. A has a primary key, first or last, and up to MaxExtraFields of *)
(* the fields of RawPool; B has the primary key id and may have created_at.   *)

RawModelNames == {"Order", "orders", "Class", "Equipment"}
RawRemoteNames == {"Customer", "customers", "Order"}

RawIds ==
  { MkField("id", "Int", FALSE, FALSE, <<Attr("id", <<>>)>>),
    MkField("uid", "Int", FALSE, FALSE, <<Attr("id", <<>>)>>),
    MkField("order_id", "Int", FALSE, FALSE, <<Attr("id", <<>>)>>),
    MkField("customer_id", "Int", FALSE, FALSE, <<Attr("id", <<>>)>>) }

RawPool(remoteName) ==
  << MkField("id", "Int", FALSE, FALSE, <<>>),
     MkField("created_at", "DateTime", FALSE, FALSE, <<Attr("default", <<FuncArg("now")>>)>>),
     MkField("customer_id", "Int", FALSE, FALSE, <<>>),
     MkField("customer", remoteName, FALSE, FALSE,
             <<Attr("relation", <<KeyValueArr("fields", <<"customer_id">>),
                                  KeyValueArr("references", <<"id">>)>>)>>),
     MkField("order_status", "Status", FALSE, FALSE, <<>>),
     MkField("class", "String", FALSE, FALSE, <<>>),
     MkField("blob", "Bytes", TRUE, FALSE, <<>>) >>

RawRemoteFields ==
  { <<OrderId>>,
    <<OrderId, MkField("created_at", "DateTime", FALSE, FALSE, <<>>)>>,
    <<MkField("uid", "Int", FALSE, FALSE, <<Attr("id", <<>>)>>),
      MkField("created_at", "DateTime", FALSE, FALSE, <<>>)>> }

\* the field lists of A for a primary key and the name of B
RawFieldLists(pk, remoteName) ==
  { fields \in UNION { { <<pk>> \o PickSeq(RawPool(remoteName), S),
                         PickSeq(RawPool(remoteName), S) \o <<pk>> } :
                       S \in Picks(RawPool(remoteName)) } :
      \A i, j \in 1..Len(fields) : fields[i].name = fields[j].name => i = j }

InputSchemas ==
  UNION { UNION { UNION {
    { [list |-> << MkModel(a, fields), StatusEnum, MkModel(b, remoteFields) >>] :
        fields \in RawFieldLists(pk, b), remoteFields \in RawRemoteFields } :
      pk \in RawIds } :
    b \in RawRemoteNames \ {a} } :
  a \in RawModelNames }

-----------------------------------------------------------------------------
(* The run of processSchema(...operations): the operations applied in order *)
(* to the schema of the builder, and the result processed once more.        *)

InitProcess ==
  /\ schema \in InputSchemas
  /\ pc = "processing"
  /\ pipeline = [round |-> 1, next |-> 1, input |-> schema, before |-> schema]
  /\ mi = 0
  /\ fi = 0
  /\ preparedEntities = <<>>
  /\ err = NoError
  /\ logged = <<>>
  /\ pairing = <<>>
  /\ callModel = 0
  /\ callField = NoField
  /\ callResult = NoCall

\* builder = operation.call(this, builder) for the k-th operation
ApplyOperation(k) ==
  /\ pc = "processing"
  /\ pipeline.next = k
  /\ LET r == CallOperation(operations[k], schema)
     IN  /\ schema' = r.schema
         /\ err' = r.error
         /\ pc' = IF r.error # NoError THEN "threw"
                  ELSE IF k = Len(operations) THEN "processed" ELSE "processing"
  /\ pipeline' = [pipeline EXCEPT !.next = k + 1, !.before = schema]
  /\ UNCHANGED <<mi, fi, preparedEntities, logged, pairing, callModel, callField, callResult>>

HandleModelNamesRenaming == ApplyOperation(1)
HandleFieldNamesRenaming == ApplyOperation(2)
HandleFieldTypesRenaming == ApplyOperation(3)
HandleIdField == ApplyOperation(4)

\* processSchema applied to the schema it returned
ProcessAgain ==
  /\ pc = "processed"
  /\ pipeline.round = 1
  /\ pc' = "processing"
  /\ pipeline' = [round |-> 2, next |-> 1, input |-> schema, before |-> schema]
  /\ UNCHANGED <<schema, mi, fi, preparedEntities, err, logged, pairing,
                 callModel, callField, callResult>>

NextProcess ==
  \/ HandleModelNamesRenaming
  \/ HandleFieldNamesRenaming
  \/ HandleFieldTypesRenaming
  \/ HandleIdField
  \/ ProcessAgain

SpecProcess == InitProcess /\ [][NextProcess]_vars

-----------------------------------------------------------------------------
(* Properties of the operations of processSchema, checked under SpecProcess *)

\* the step is the k-th operation returning
OperationReturns(k) == pc = "processing" /\ pipeline.next = k /\ err' = NoError

\* a Record-Type name that is plural, has an underscore, does not start with an
\* uppercase letter or is a reserved word whatever its case
RecordTypeNameIsInvalid(n) ==
  \/ n \in {"orders", "customers", "order_items", "Equipment"}
  \/ IncludesUnderscore(n)
  \/ ~StartsUpperCase(n)
  \/ toLowerCase(n) \in {"class"}

\* the type-level mapping attributes among the properties of a model
BlockMaps(model) ==
  SelectSeq(model.properties,
            LAMBDA property : property.type = "attribute" /\ property.name = "map")

\* the field-level mapping attributes of a field
FieldMaps(field) == SelectSeq(field.attributes, LAMBDA attr : attr.name = "map")

\* C12: the Record-Type renaming pass gives every Record-Type whose name was
\* plural, had an underscore, did not start with an uppercase letter or was a
\* reserved word the PascalCase singular form of the name and one more
\* type-level mapping attribute, holding the name it had; every other
\* Record-Type, and every Enumeration, is left as it was.
C12_InvalidModelNamesRenamed ==
  [][OperationReturns(1) =>
       /\ Len(schema'.list) = Len(schema.list)
       /\ \A i \in 1..Len(schema.list) :
            LET old == schema.list[i]
                new == schema'.list[i]
            IN  IF old.type = MODEL_TYPE_NAME /\ RecordTypeNameIsInvalid(old.name)
                THEN /\ new.name = formatModelName(old.name)
                     /\ new.properties =
                          Append(old.properties, MapBlockAttribute(old.name))
                ELSE new = old]_vars

\* the pass has renamed "orders" to "Order", with the mapping attribute, and
\* left a Record-Type with a valid name without one
C12_Witness ==
  /\ pc = "processing"
  /\ pipeline.round = 1
  /\ pipeline.next = 2
  /\ pipeline.before.list[1].name = "orders"
  /\ schema.list[1].name = "Order"
  /\ Len(BlockMaps(schema.list[1])) = 1
  /\ BlockMaps(schema.list[1])[1].args = <<StrArg("orders")>>
  /\ schema.list[3].name = "Customer"
  /\ schema.list[3] = pipeline.before.list[3]

\* a field name that has an underscore or is a reserved word
FieldNameIsInvalid(n) == IncludesUnderscore(n) \/ toLowerCase(n) \in {"class"}

\* the field is classified OptionSet or MultiSelectOptionSet
IsEnumTyped(sch, field) ==
  resolveFieldDataType(sch, field) \in {"OptionSet", "MultiSelectOptionSet"}

\* C13: the field renaming pass gives every field without a primary-key
\* attribute whose name had an underscore or was a reserved word, and which is
\* neither enum-typed nor a foreign-key storage column, the camelCase form of
\* its name and one more field-level mapping attribute, holding the name it
\* had; such fields that are enum-typed or foreign-key storage columns, and
\* all fields with a primary-key attribute, keep their name and get no
\* mapping attribute.
C13_InvalidFieldNamesRenamed ==
  [][OperationReturns(2) =>
       /\ Len(schema'.list) = Len(schema.list)
       /\ \A i \in 1..Len(schema.list) :
            schema.list[i].type = MODEL_TYPE_NAME =>
              /\ Len(schema'.list[i].properties) = Len(schema.list[i].properties)
              /\ \A p \in 1..Len(schema.list[i].properties) :
                   LET model == schema.list[i]
                       old == model.properties[p]
                       new == schema'.list[i].properties[p]
                   IN  old.type = FIELD_TYPE_NAME =>
                         IF /\ ~HasPrimaryKey(old)
                            /\ FieldNameIsInvalid(old.name)
                            /\ ~IsEnumTyped(schema, old)
                            /\ OwningFieldCount(model, old.name) # 1
                         THEN /\ new.name = formatFieldName(old.name)
                              /\ new.attributes =
                                   Append(old.attributes, MapAttribute(old.name))
                         ELSE (HasPrimaryKey(old) \/ FieldNameIsInvalid(old.name)) =>
                                /\ new.name = old.name
                                /\ FieldMaps(new) = FieldMaps(old)]_vars

\* C14: primary-key normalization leaves, in every Record-Type and whatever
\* the order of its fields, each field with the primary-key attribute named
\* id, with one more mapping attribute holding the name it had when that was
\* another name, and no field without the primary-key attribute named id; the
\* rename and the mapping attribute go to the field they are made for: no
\* other field changes and no field is added.
C14_PrimaryKeyNamedId ==
  [][OperationReturns(4) =>
       /\ Len(schema'.list) = Len(schema.list)
       /\ \A i \in 1..Len(schema.list) :
            schema.list[i].type = MODEL_TYPE_NAME =>
              /\ Len(schema'.list[i].properties) = Len(schema.list[i].properties)
              /\ \A p \in 1..Len(schema.list[i].properties) :
                   LET old == schema.list[i].properties[p]
                       new == schema'.list[i].properties[p]
                   IN  old.type = FIELD_TYPE_NAME =>
                         /\ HasPrimaryKey(old) /\ old.name = "id" => new = old
                         /\ HasPrimaryKey(old) /\ old.name # "id" =>
                              /\ new.name = "id"
                              /\ new.attributes =
                                   Append(old.attributes, MapAttribute(old.name))
                         /\ ~HasPrimaryKey(old) =>
                              /\ new.name # "id"
                              /\ old.name # "id" => new = old]_vars

\* C15: primary-key normalization renames a field without the primary-key
\* attribute that is named id to "<RecordTypeName>Id" and gives it a mapping
\* attribute holding the name it had, id.
C15_PlainIdFieldKeepsStorageName ==
  [][OperationReturns(4) =>
       \A i \in 1..Len(schema.list) :
         schema.list[i].type = MODEL_TYPE_NAME =>
           \A p \in 1..Len(schema.list[i].properties) :
             LET model == schema.list[i]
                 old == model.properties[p]
                 new == schema'.list[i].properties[p]
             IN  ( /\ old.type = FIELD_TYPE_NAME
                   /\ ~HasPrimaryKey(old)
                   /\ old.name = "id" ) =>
                   /\ new.name = model.name \o "Id"
                   /\ FieldMaps(new) = Append(FieldMaps(old), MapAttribute("id"))]_vars

\* the names, types and mapping attributes of the schema, place by place
NamesAndMaps(sch) ==
  [i \in 1..Len(sch.list) |->
     IF sch.list[i].type = MODEL_TYPE_NAME
     THEN [name |-> sch.list[i].name,
           maps |-> BlockMaps(sch.list[i]),
           fields |-> [p \in 1..Len(ModelFields(sch.list[i])) |->
                         LET field == ModelFields(sch.list[i])[p]
                         IN  [name |-> field.name, fieldType |-> field.fieldType,
                              maps |-> FieldMaps(field)]]]
     ELSE [name |-> sch.list[i].name]]

\* C16: the four operations applied, in order, to the schema they produced
\* return and change no Record-Type name, field name or field type and attach
\* no mapping attribute to any Record-Type or field.
C16_PipelineIdempotent ==
  pipeline.round = 2 =>
    /\ pc # "threw"
    /\ pc = "processed" => NamesAndMaps(schema) = NamesAndMaps(pipeline.input)

\* C17: none of the four operations fails: each one, applied to any schema,
\* a schema with a field of an unsupported type included, returns a schema
\* and throws nothing.
C17_NoOperationThrows ==
  [][pc = "processing" => (err' = NoError /\ pc' # "threw")]_vars

-----------------------------------------------------------------------------
(* Direct calls of the public convertPrismaOptionSetToEntityField and        *)
(* convertPrismaMultiSelectOptionSetToEntityField(schema, model, field,      *)
(* preparedEntities) on a field of model Task, against schemas declaring up  *)
(* to MaxEnums of the enums below.                                           *)

MaxEnums == 2

OptionSetEnumPool ==
  << StatusEnum,
     MkEnum("Priority", <<"Low", "High", "Urgent">>),
     MkEnum("orders", <<"Open">>),
     MkEnum("Order", <<"Closed">>) >>

\* the sequences of at most MaxEnums distinct enums of the pool
OptionSetEnumLists ==
  UNION {{l \in [1..n -> 1..Len(OptionSetEnumPool)] :
            \A i, j \in 1..n : i # j => l[i] # l[j]} : n \in 0..MaxEnums}

OptionSetFieldTypes == {"Status", "Priority", "orders", "Order", "Ghost"}

OptionSetFieldNames == {"status", "Status", "Priority"}

OptionSetFields ==
  {MkField(n, t, FALSE, arr, <<>>) :
     n \in OptionSetFieldNames, t \in OptionSetFieldTypes, arr \in BOOLEAN}

OptionSetSchema(field, l) ==
  [list |-> <<MkModel("Task", <<OrderId, field>>)>>
            \o [i \in 1..Len(l) |-> OptionSetEnumPool[l[i]]]]

InitOptionSet ==
  /\ callField \in OptionSetFields
  /\ schema \in {OptionSetSchema(callField, l) : l \in OptionSetEnumLists}
  /\ callModel = 1
  /\ pc = "callOptionSet"
  /\ mi = 0
  /\ fi = 0
  /\ preparedEntities =
       [i \in 1..Len(ModelList(schema)) |-> prepareEntity(ModelList(schema)[i], i)]
  /\ err = NoError
  /\ logged = <<>>
  /\ pairing = <<>>
  /\ callResult = NoCall
  /\ pipeline = NoPipeline

\* what a call of one of the two builders leaves behind
OptionSetCallReturns(builder, st) ==
  /\ pc = "callOptionSet"
  /\ callResult' = [called |-> TRUE, value |-> builder]
  /\ preparedEntities' = st.entities
  /\ err' = st.error
  /\ pc' = IF st.error = NoError THEN "optionSetReturned" ELSE "optionSetThrew"
  /\ UNCHANGED <<schema, mi, fi, logged, pairing, callModel, callField, pipeline>>

CallConvertPrismaOptionSetToEntityField ==
  OptionSetCallReturns("OptionSet",
    convertPrismaOptionSetToEntityField(schema, ModelList(schema)[callModel], callField,
      [error |-> NoError, entities |-> preparedEntities, pairing |-> pairing]))

CallConvertPrismaMultiSelectOptionSetToEntityField ==
  OptionSetCallReturns("MultiSelectOptionSet",
    convertPrismaMultiSelectOptionSetToEntityField(schema, ModelList(schema)[callModel],
      callField, [error |-> NoError, entities |-> preparedEntities, pairing |-> pairing]))

NextOptionSet ==
  \/ CallConvertPrismaOptionSetToEntityField
  \/ CallConvertPrismaMultiSelectOptionSetToEntityField

SpecOptionSet == InitOptionSet /\ [][NextOptionSet]_vars

\* the place, among the declared enums, of the one the field's type names
\* (0 when none is declared under that name)
DeclaredEnumOfType(sch, field) ==
  FirstIndex(EnumList(sch), LAMBDA item : item.name = field.fieldType)

\* the entity field the call has pushed to the entity of the model
PushedField == preparedEntities[callModel].fields[Len(preparedEntities[callModel].fields)]

\* C18: either builder, called on a field whose type names a declared enum,
\* returns and pushes a field whose options are that enum's enumerators, in
\* order, label = value = the enumerator's name; it throws 'Enum not found'
\* only when no enum of the field's type is declared.
C18_OptionsOfTheDeclaredEnum ==
  [][pc = "callOptionSet" =>
       LET k == DeclaredEnumOfType(schema, callField)
       IN  /\ k # 0 =>
                /\ err' = NoError
                /\ Len(preparedEntities'[callModel].fields) =
                     Len(preparedEntities[callModel].fields) + 1
                /\ PushedField'.properties.options = EnumOptions(EnumList(schema)[k])
           /\ err' # NoError => k = 0]_vars

-----------------------------------------------------------------------------
(* validateSchemaProcessing(schema): the messages about the models and the   *)
(* fields of the parsed schema. A message is its code, its level and the     *)
(* names its details text is built from.                                     *)

\* ErrorLevel and ErrorMessages of ./types
ErrorLevel == [Error |-> "Error", Warning |-> "Warning"]

ErrorMessages ==
  [NoModels |-> "NoModels", InvalidFKFieldName |-> "InvalidFKFieldName",
   ReservedWord |-> "ReservedWord"]

ErrorMessage(message, level, details) ==
  [message |-> message, level |-> level, details |-> details]

\* isCamelCaseWithIdSuffix of ./helpers: camelCase ending with "Id"
isCamelCaseWithIdSuffix(n) == n \in {"customerId", "orderId"}

\* each validate function returns its errors, or null when it has none; the
\* caller spreads what is not null, so null is the empty sequence here
validateFKFieldName(modelName, fieldName) ==
  IF ~isCamelCaseWithIdSuffix(fieldName)
  THEN <<ErrorMessage(ErrorMessages.InvalidFKFieldName, ErrorLevel.Error,
                      <<"Field name", fieldName, "in model", modelName>>)>>
  ELSE <<>>

validateModelNamesReservedWords(modelName) ==
  IF isReservedName(toLowerCase(modelName))
  THEN <<ErrorMessage(ErrorMessages.ReservedWord, ErrorLevel.Warning,
                      <<"Model name", modelName>>)>>
  ELSE <<>>

validateFieldNamesReservedWords(fieldName) ==
  IF isReservedName(toLowerCase(fieldName))
  THEN <<ErrorMessage(ErrorMessages.ReservedWord, ErrorLevel.Warning,
                      <<"Field name", fieldName>>)>>
  ELSE <<>>

\* fields.map(...) from the k-th field on
RECURSIVE ValidateFields(_, _, _)
ValidateFields(model, fields, k) ==
  IF k > Len(fields) THEN <<>>
  ELSE validateFKFieldName(model.name, fields[k].name)
       \o validateModelNamesReservedWords(model.name)
       \o validateFieldNamesReservedWords(fields[k].name)
       \o ValidateFields(model, fields, k + 1)

\* models.map(...) from the k-th model on
RECURSIVE ValidateModels(_, _)
ValidateModels(models, k) ==
  IF k > Len(models) THEN <<>>
  ELSE ValidateFields(models[k], ModelFields(models[k]), 1)
       \o ValidateModels(models, k + 1)

NoModelsError ==
  ErrorMessage(ErrorMessages.NoModels, ErrorLevel.Error,
               <<"A schema must contain at least one model">>)

\* errors.length > 0 ? errors : null
ErrorsOrNull(errors) ==
  IF Len(errors) > 0 THEN [null |-> FALSE, errors |-> errors]
  ELSE [null |-> TRUE, errors |-> <<>>]

validateSchemaProcessingOfModels(sch) ==
  ErrorsOrNull(ValidateModels(ModelList(sch), 1))

validateSchemaProcessing(sch) ==
  LET models == ModelList(sch)
  IN  ErrorsOrNull((IF Len(models) = 0 THEN <<NoModelsError>> ELSE <<>>)
                   \o ValidateModels(models, 1))

-----------------------------------------------------------------------------
(* validateSchemaProcessing and then convertPreparedSchemaForImportObjects   *)
(* on the same schema: the prepared schemas, schemas without models, and     *)
(* one model of up to MaxValidatedFields fields with reserved and other      *)
(* names.                                                                    *)

MaxValidatedFields == 2

ValidatedModelNames == {"Class", "class", "Order"}

ValidatedFieldPool ==
  << OrderId,
     MkField("class", "String", FALSE, FALSE, <<>>),
     MkField("Class", "String", TRUE, FALSE, <<>>),
     MkField("customerId", "Int", FALSE, FALSE, <<>>),
     MkField("created_at", "DateTime", FALSE, FALSE, <<>>),
     MkField("blob", "Bytes", TRUE, FALSE, <<>>) >>

\* the sequences of at most MaxValidatedFields distinct fields of the pool
ValidatedFieldLists ==
  UNION {{[i \in 1..n |-> ValidatedFieldPool[l[i]]] :
            l \in {x \in [1..n -> 1..Len(ValidatedFieldPool)] :
                     \A i, j \in 1..n : i # j => x[i] # x[j]}} :
         n \in 0..MaxValidatedFields}

ValidatedSchemas ==
  {EmptySchema, [list |-> <<StatusEnum>>], ScenarioSchema, RawSchema}
  \cup {[list |-> <<MkModel(n, fields), StatusEnum>>] :
          n \in ValidatedModelNames, fields \in ValidatedFieldLists}

InitValidate ==
  /\ schema \in ValidatedSchemas
  /\ pc = "validate"
  /\ mi = 0
  /\ fi = 0
  /\ preparedEntities = <<>>
  /\ err = NoError
  /\ logged = <<>>
  /\ pairing = <<>>
  /\ callModel = 0
  /\ callField = NoField
  /\ callResult = NoCall
  /\ pipeline = NoPipeline

ValidateSchemaProcessing ==
  /\ pc = "validate"
  /\ callResult' = [called |-> TRUE, value |-> validateSchemaProcessing(schema)]
  /\ pc' = "start"
  /\ UNCHANGED <<schema, mi, fi, preparedEntities, err, logged, pairing,
                 callModel, callField, pipeline>>

NextValidate ==
  \/ ValidateSchemaProcessing
  \/ Next

SpecValidate == InitValidate /\ [][NextValidate]_vars

-----------------------------------------------------------------------------
(* Properties of the validation, checked under SpecValidate *)

\* the messages validateSchemaProcessing returned (none when it returned null)
ReturnedMessages == callResult.value.errors

\* C19: for a schema without Record-Types, with or without Enumerations,
\* validateSchemaProcessing returns exactly one message, of level Error and
\* code NoModels, and the conversion throws nothing and its list of
\* EntityDescriptors is empty.
C19_NoModelsOneErrorNoEntities ==
  ModelList(schema) = <<>> =>
    /\ callResult.called =>
         /\ ~callResult.value.null
         /\ Len(ReturnedMessages) = 1
         /\ ReturnedMessages[1].level = "Error"
         /\ ReturnedMessages[1].message = "NoModels"
    /\ err = NoError
    /\ pc \in {"validate", "start", "fields", "done"}
    /\ preparedEntities = <<>>

C19_Witness ==
  /\ pc = "done"
  /\ callResult.called
  /\ ModelList(schema) = <<>>
  /\ EnumList(schema) # <<>>

\* the name is a reserved word, whatever its case
NameIsReserved(n) == isReservedName(toLowerCase(n))

\* the places of the ReservedWord messages about the Record-Type name (kind
\* "Model name") or the field name (kind "Field name") n
ReservedWordMessagesAbout(kind, n) ==
  {i \in 1..Len(ReturnedMessages) :
     /\ ReturnedMessages[i].message = "ReservedWord"
     /\ ReturnedMessages[i].details = <<kind, n>>}

\* C20: validateSchemaProcessing returns one ReservedWord message, of level
\* Warning, for every Record-Type with a reserved name, however many fields
\* it has, and one for every field with a reserved name; it returns no
\* ReservedWord message about any other name and none of level Error.
C20_ReservedWordWarnings ==
  callResult.called =>
    /\ \A i \in 1..Len(ReturnedMessages) :
         ReturnedMessages[i].message = "ReservedWord" =>
           ReturnedMessages[i].level = "Warning"
    /\ \A m \in 1..Len(ModelList(schema)) :
         LET model == ModelList(schema)[m]
         IN  /\ Cardinality(ReservedWordMessagesAbout("Model name", model.name)) =
                  (IF NameIsReserved(model.name) THEN 1 ELSE 0)
             /\ \A p \in 1..Len(ModelFields(model)) :
                  Cardinality(ReservedWordMessagesAbout("Field name",
                                                        ModelFields(model)[p].name)) =
                    (IF NameIsReserved(ModelFields(model)[p].name) THEN 1 ELSE 0)

-----------------------------------------------------------------------------
(* Properties of the schema processSchema returns, checked under SpecProcess *)

\* no two Record-Types of the schema have the same name and no two fields of
\* one Record-Type have the same name
NamesAreUnique(sch) ==
  LET models == ModelList(sch)
  IN  /\ \A i, j \in 1..Len(models) : i # j => models[i].name # models[j].name
      /\ \A i \in 1..Len(models) :
           \A p, q \in 1..Len(ModelFields(models[i])) :
             p # q => ModelFields(models[i])[p].name # ModelFields(models[i])[q].name

\* C21: when the Record-Type names of the input are pairwise distinct and
\* the field names of each Record-Type are pairwise distinct, the same is
\* true of the schema the four operations return.
C21_NamesStayUnique ==
  (pc = "processed" /\ pipeline.round = 1 /\ NamesAreUnique(pipeline.input))
    => NamesAreUnique(schema)

\* the field names the relation attributes of the field list in their
\* "fields" argument
RelationScalarFields(field) ==
  UNION {UNION {{attr.args[a].list[n] : n \in 1..Len(attr.args[a].list)} :
                  a \in {x \in 1..Len(attr.args) :
                           attr.args[x].kind = "keyValue" /\ attr.args[x].key = "fields"}} :
         attr \in {field.attributes[k] :
                     k \in {x \in 1..Len(field.attributes) :
                              field.attributes[x].name = "relation"}}}

FieldNames(model) == {ModelFields(model)[p].name : p \in 1..Len(ModelFields(model))}

\* every name in the fields argument of a relation attribute is the name of
\* a field of the same Record-Type
RelationsResolve(sch) ==
  \A i \in 1..Len(ModelList(sch)) :
    \A p \in 1..Len(ModelFields(ModelList(sch)[i])) :
      RelationScalarFields(ModelFields(ModelList(sch)[i])[p])
        \subseteq FieldNames(ModelList(sch)[i])

\* C22: when the relation attributes of the input resolve, those of the
\* schema the four operations return resolve too, and every field that
\* isFkFieldOfARelation held for in the input is one it holds for in the
\* result.
C22_RelationFieldsResolvable ==
  (pc = "processed" /\ pipeline.round = 1 /\ RelationsResolve(pipeline.input)) =>
    /\ RelationsResolve(schema)
    /\ \A i \in 1..Len(ModelList(schema)) :
         LET model == ModelList(schema)[i]
             before == ModelList(pipeline.input)[i]
         IN  \A p \in 1..Len(ModelFields(before)) :
               isFkFieldOfARelation(pipeline.input, before, ModelFields(before)[p])
                 => isFkFieldOfARelation(schema, model, ModelFields(model)[p])

-----------------------------------------------------------------------------
(* Property of the descriptors, checked under Spec *)

\* the descriptor the step has appended to the entity of the current model
EmittedDescriptor ==
  LET fields == FieldsOfEntity(CurrentModel.name)' IN fields[Len(fields)]

\* C23: the descriptor emitted for a field, whatever its category, has
\* required true when the field is not optional and false when the field is
\* declared optional.
C23_RequiredIffNotOptional ==
  [][ConvertField => (EmittedDescriptor.required = ~CurrentField.optional)]_vars

====
